---- MODULE Spec2Model ----
(***************************************************************************)
(* Model of the digitalregistrar extraction orchestrator                   *)
(* (pipeline.py: CancerPipeline.forward, timeit, run_pipeline,             *)
(* run_cancer_pipeline), its registry (models/modellist.py) and the result *)
(* normalizer (util/predictiondump.py: _to_json_safe,                      *)
(* dump_prediction_plain, dump_prediction).                                *)
(*                                                                         *)
(* Python strings that the code inspects (dict keys, report text) are      *)
(* sequences of one-character strings; Python values are tagged records.   *)
(***************************************************************************)
EXTENDS Integers, Sequences, FiniteSets, TLC

VARIABLES
    pc,               \* position of the orchestrator run
    report,           \* the raw report text handed to forward
    paragraphs,       \* the derived paragraph sequence
    context_response, \* the classification result
    json_report,      \* the generic structured document
    idx,              \* position of the fan-out loop in the registry list
    output_report,    \* the output document under construction
    log,              \* logger.error entries
    calls,            \* backend calls made so far, in order
    attempts,         \* what happened to each registry identifier so far
    returned,         \* what run_cancer_pipeline handed to its caller
    obj,              \* normalizer: the value given to dump_prediction_plain
    nodes,            \* normalizer: number of nodes of obj
    dumped,           \* normalizer: the value dump_prediction_plain returned
    redumped,         \* normalizer: dump_prediction_plain of that value
    options,          \* normalizer: the keyword arguments of dump_prediction
    extended          \* normalizer: the value dump_prediction returned

pipevars == <<pc, report, paragraphs, context_response, json_report, idx,
              output_report, log, calls, attempts, returned>>
dumpvars == <<obj, nodes, dumped, redumped, options, extended>>
vars == <<pc, report, paragraphs, context_response, json_report, idx,
          output_report, log, calls, attempts, returned, obj, nodes, dumped,
          redumped, options, extended>>

-----------------------------------------------------------------------------
(* Bounds *)

\* longest prefix of a registry list that the fan-out walks
MaxExtractors == 2
\* number of nodes of a value given to the normalizer
MaxNodes == 3
\* number of entries of a mapping, or elements of a sequence, built as input
MaxEntries == 2
\* length of the report texts tried for the paragraph splitting
MaxReportLen == 5

-----------------------------------------------------------------------------
(* Python values *)

\* str keys are [kt |-> "str"], any other hashable key [kt |-> "int"]
StrKey(s) == [kt |-> "str", k |-> s]
IntKey(s) == [kt |-> "int", k |-> s]

k_lm_usage == StrKey(<<"_", "l", "m", "_", "u", "s", "a", "g", "e">>)
k_inputs == StrKey(<<"_", "i", "n", "p", "u", "t", "s">>)
k_completions == StrKey(<<"_", "c", "o", "m", "p", "l", "e", "t", "i", "o", "n", "s">>)
k_note == StrKey(<<"_", "n", "o", "t", "e">>)
k_grade == StrKey(<<"g", "r", "a", "d", "e">>)
k_margin == StrKey(<<"m", "a", "r", "g", "i", "n">>)
k_value == StrKey(<<"v", "a", "l", "u", "e">>)
k_one == IntKey(<<"1">>)

\* str.startswith(prefix)
startswith(s, prefix) ==
    /\ Len(s) >= Len(prefix)
    /\ SubSeq(s, 1, Len(prefix)) = prefix

\* None, bool, int, float, str
Prim(v) == [t |-> "prim", v |-> v]
NoneValue == Prim("None")
\* a value of no container kind: datetime or date (v is its ISO-8601 text),
\* Decimal, numpy scalar (v is its decimal text), or any other object
Opaque(kind, v) == [t |-> "opaque", kind |-> kind, v |-> v]
\* numpy.ndarray with its elements as native numbers
NdArray(items) == [t |-> "ndarray", items |-> items]
\* a Mapping; cls tells a dict from another Mapping implementation
Map(cls, m) == [t |-> "map", cls |-> cls, m |-> m]
Dict(m) == Map("dict", m)
\* list, tuple or set, in iteration order
Seq_(cls, s) == [t |-> "seq", cls |-> cls, s |-> s]
\* dspy Prediction with its _store
Prediction(store) == [t |-> "pred", store |-> store]
\* an object with dict() / to_dict() methods; each is absent, raises or returns
Export(st, val) == [st |-> st, val |-> val]
Object(d, td) == [t |-> "obj", dict |-> d, to_dict |-> td]
\* a dataclass instance with its fields, as asdict gives them
Dataclass(fields) == [t |-> "dataclass", fields |-> fields]
\* an exception leaving the normalizer
Raised == [t |-> "raise"]

EmptyDict == [k \in {} |-> NoneValue]

-----------------------------------------------------------------------------
(* util/predictiondump.py *)

\* lines 23-38
_to_json_safe(x) ==
    IF x.t = "opaque" /\ x.kind \in {"datetime", "date"} THEN Prim(x.v)
    ELSE IF x.t = "opaque" /\ x.kind = "Decimal" THEN Prim(x.v)
    ELSE IF x.t = "opaque" /\ x.kind \in {"np.integer", "np.floating"} THEN Prim(x.v)
    ELSE IF x.t = "ndarray" THEN Seq_("list", x.items)
    ELSE x

BookkeepingPrefixes == {k_lm_usage.k, k_inputs.k, k_completions.k}

\* the filter of the Prediction branch: k.startswith(("_lm_usage", ...))
KeepStoreKey(k) ==
    ~ \E p \in BookkeepingPrefixes : startswith(k.k, p)

\* the filter of the Mapping branch
KeepMappingKey(k) ==
    ~ (k.kt = "str" /\ startswith(k.k, <<"_">>))

RECURSIVE to_plain(_)
to_plain(o) ==
    IF o.t = "prim" THEN o
    ELSE IF o.t = "pred" THEN
        \* k.startswith on a key that is no str raises AttributeError
        IF \E k \in DOMAIN o.store : k.kt # "str" THEN Raised
        ELSE LET kept == {k \in DOMAIN o.store : KeepStoreKey(k)}
                 res == [k \in kept |-> to_plain(o.store[k])]
             IN  IF \E k \in kept : res[k].t = "raise" THEN Raised
                 ELSE Dict(res)
    ELSE IF o.t = "map" THEN
        LET kept == {k \in DOMAIN o.m : KeepMappingKey(k)}
            res == [k \in kept |-> to_plain(o.m[k])]
        IN  IF \E k \in kept : res[k].t = "raise" THEN Raised
            ELSE Dict(res)
    ELSE IF o.t = "seq" THEN
        LET res == [i \in 1..Len(o.s) |-> to_plain(o.s[i])]
        IN  IF \E i \in 1..Len(o.s) : res[i].t = "raise" THEN Raised
            ELSE Seq_("list", res)
    ELSE IF o.t = "obj" THEN
        \* each export is tried in turn; any exception of the export or of
        \* the normalization of what it returned falls through
        LET viaDict == IF o.dict.st = "ok" THEN to_plain(o.dict.val) ELSE Raised
            viaToDict == IF o.to_dict.st = "ok" THEN to_plain(o.to_dict.val) ELSE Raised
        IN  IF viaDict.t # "raise" THEN viaDict
            ELSE IF viaToDict.t # "raise" THEN viaToDict
            ELSE o
    ELSE o

\* isinstance(result, dict)
IsDict(v) == v.t = "map" /\ v.cls = "dict"

\* variant: the top level is wrapped whatever it is
WrapTopLevelAlways(result) ==
    Dict(k_value :> result)

WrapTopLevel(result) ==
    IF IsDict(result) THEN result ELSE Dict(k_value :> result)

dump_prediction_plain(pred) ==
    LET result == to_plain(pred)
    IN  IF result.t = "raise" THEN Raised ELSE WrapTopLevel(result)

\* the keyword arguments of dump_prediction
Options(exclude_private, exclude_keys, custom_predicate) ==
    [exclude_private |-> exclude_private, exclude_keys |-> exclude_keys,
     custom_predicate |-> custom_predicate]

\* custom_predicate: None, or a function of (key, value); the functions
\* tried reject a set of keys or reject one value
NoPredicate == [kind |-> "none", keys |-> {}, value |-> NoneValue]
RejectKeys(S) == [kind |-> "keys", keys |-> S, value |-> NoneValue]
RejectValue(v) == [kind |-> "value", keys |-> {}, value |-> v]

\* custom_predicate(k, v)
Accepts(p, k, v) ==
    IF p.kind = "keys" THEN k \notin p.keys
    ELSE IF p.kind = "value" THEN v # p.value
    ELSE TRUE

\* lines 111-117: the entries of a Prediction's store that are kept
KeepStoreEntry(k, v, opts) ==
    /\ k \notin opts.exclude_keys
    /\ ~ (opts.exclude_private /\ k.kt = "str" /\ startswith(k.k, <<"_">>))
    /\ ~ (opts.custom_predicate.kind # "none" /\ ~Accepts(opts.custom_predicate, k, v))

\* lines 156-163: the entries of a dict that are kept
KeepDictEntry(k, v, opts) ==
    k.kt = "str" =>
        /\ k \notin opts.exclude_keys
        /\ ~ (opts.exclude_private /\ startswith(k.k, <<"_">>))
        /\ ~ (opts.custom_predicate.kind # "none" /\ ~Accepts(opts.custom_predicate, k, v))

\* lines 81-199
RECURSIVE dump_prediction(_, _)
dump_prediction(o, opts) ==
    IF o.t = "prim" THEN o
    ELSE IF o.t = "pred" THEN
        LET kept == {k \in DOMAIN o.store : KeepStoreEntry(k, o.store[k], opts)}
        IN  Dict([k \in kept |-> dump_prediction(o.store[k], opts)])
    ELSE IF o.t = "dataclass" THEN
        dump_prediction(Dict(o.fields), opts)
    ELSE IF o.t = "map" /\ o.cls = "dict" THEN
        LET kept == {k \in DOMAIN o.m : KeepDictEntry(k, o.m[k], opts)}
        IN  Dict([k \in kept |-> dump_prediction(o.m[k], opts)])
    ELSE IF o.t = "seq" THEN
        Seq_("list", [i \in 1..Len(o.s) |-> dump_prediction(o.s[i], opts)])
    ELSE IF o.t = "obj" /\ o.to_dict.st = "ok" THEN
        dump_prediction(o.to_dict.val, opts)
    ELSE IF o.t = "obj" /\ o.dict.st = "ok" THEN
        dump_prediction(o.dict.val, opts)
    ELSE _to_json_safe(o)

-----------------------------------------------------------------------------
(* Values handed to the normalizer *)

Unset == [t |-> "unset"]

Leaves ==
    {NoneValue, Prim("2"), Prim("neg"), Opaque("datetime", "2025-10-05T08:00:00"),
     Opaque("Decimal", "1.5"), Opaque("other", "o1")}
EntryLeaves == {Prim("2"), Prim("neg")}
MapKeys == {k_lm_usage, k_note, k_grade, k_margin, k_one}
MapClasses == {"dict", "Mapping"}
SeqClasses == {"list", "tuple"}

\* a list or tuple holding the value
BuildSeq(cls) ==
    /\ dumped = Unset
    /\ extended = Unset
    /\ nodes < MaxNodes
    /\ obj' = Seq_(cls, <<obj>>)
    /\ nodes' = nodes + 1
    /\ UNCHANGED <<dumped, redumped, options, extended, pipevars>>

\* one more element after the value
BuildAppend(leaf) ==
    /\ dumped = Unset
    /\ extended = Unset
    /\ nodes < MaxNodes
    /\ obj.t = "seq"
    /\ Len(obj.s) < MaxEntries
    /\ obj' = [obj EXCEPT !.s = Append(@, leaf)]
    /\ nodes' = nodes + 1
    /\ UNCHANGED <<dumped, redumped, options, extended, pipevars>>

\* a mapping holding the value under key k
BuildMap(cls, k) ==
    /\ dumped = Unset
    /\ extended = Unset
    /\ nodes < MaxNodes
    /\ obj' = Map(cls, k :> obj)
    /\ nodes' = nodes + 1
    /\ UNCHANGED <<dumped, redumped, options, extended, pipevars>>

\* a Prediction holding the value in its store under key k
BuildPrediction(k) ==
    /\ dumped = Unset
    /\ extended = Unset
    /\ nodes < MaxNodes
    /\ obj' = Prediction(k :> obj)
    /\ nodes' = nodes + 1
    /\ UNCHANGED <<dumped, redumped, options, extended, pipevars>>

\* one more entry of the mapping or of the Prediction's store
BuildEntry(k, leaf) ==
    /\ dumped = Unset
    /\ extended = Unset
    /\ nodes < MaxNodes
    /\ \/ /\ obj.t = "map"
          /\ k \notin DOMAIN obj.m
          /\ Cardinality(DOMAIN obj.m) < MaxEntries
          /\ obj' = [obj EXCEPT !.m = (k :> leaf) @@ @]
       \/ /\ obj.t = "pred"
          /\ k \notin DOMAIN obj.store
          /\ Cardinality(DOMAIN obj.store) < MaxEntries
          /\ obj' = [obj EXCEPT !.store = (k :> leaf) @@ @]
    /\ nodes' = nodes + 1
    /\ UNCHANGED <<dumped, redumped, options, extended, pipevars>>

\* an object whose dict() returns the value, or whose dict() raises and
\* whose to_dict() returns it, or both of whose exports raise
BuildObject(mode) ==
    /\ dumped = Unset
    /\ extended = Unset
    /\ nodes < MaxNodes
    /\ obj' = CASE mode = "dict" -> Object(Export("ok", obj), Export("absent", NoneValue))
                [] mode = "to_dict" -> Object(Export("raises", NoneValue), Export("ok", obj))
                [] OTHER -> Object(Export("ok", Prediction(k_one :> obj)), Export("raises", NoneValue))
    /\ nodes' = nodes + 1
    /\ UNCHANGED <<dumped, redumped, options, extended, pipevars>>

\* a dataclass instance holding the value in field k
BuildDataclass(k) ==
    /\ dumped = Unset
    /\ extended = Unset
    /\ nodes < MaxNodes
    /\ obj' = Dataclass(k :> obj)
    /\ nodes' = nodes + 1
    /\ UNCHANGED <<dumped, redumped, options, extended, pipevars>>

Build ==
    \/ \E cls \in SeqClasses : BuildSeq(cls)
    \/ \E leaf \in EntryLeaves : BuildAppend(leaf)
    \/ \E cls \in MapClasses, k \in MapKeys : BuildMap(cls, k)
    \/ \E k \in MapKeys : BuildPrediction(k)
    \/ \E k \in MapKeys, leaf \in EntryLeaves : BuildEntry(k, leaf)
    \/ \E mode \in {"dict", "to_dict", "fail"} : BuildObject(mode)
    \/ \E k \in {k_grade, k_note} : BuildDataclass(k)

\* result = dump_prediction_plain(obj)
Dump ==
    /\ dumped = Unset
    /\ dumped' = dump_prediction_plain(obj)
    /\ UNCHANGED <<obj, nodes, redumped, options, extended, pipevars>>

\* dump_prediction_plain applied to what dump_prediction_plain returned
Redump ==
    /\ dumped # Unset
    /\ dumped # Raised
    /\ redumped = Unset
    /\ redumped' = dump_prediction_plain(dumped)
    /\ UNCHANGED <<obj, nodes, dumped, options, extended, pipevars>>

DumpNext ==
    \/ Build
    \/ Dump
    \/ Redump

DefaultExcludeKeys == {k_lm_usage, k_inputs, k_completions}

ExtendedOptions ==
    {Options(TRUE, DefaultExcludeKeys, NoPredicate),
     Options(FALSE, DefaultExcludeKeys, NoPredicate),
     Options(FALSE, {k_grade}, NoPredicate),
     Options(TRUE, DefaultExcludeKeys, RejectKeys({k_margin, k_one})),
     Options(TRUE, DefaultExcludeKeys, RejectValue(Prim("2")))}

\* result = dump_prediction(obj, **opts)
DumpExtended(opts) ==
    /\ dumped = Unset
    /\ extended = Unset
    /\ options' = opts
    /\ extended' = dump_prediction(obj, opts)
    /\ UNCHANGED <<obj, nodes, dumped, redumped, pipevars>>

ExtendedNext ==
    \/ Build
    \/ \E opts \in ExtendedOptions : DumpExtended(opts)

-----------------------------------------------------------------------------
(* models/modellist.py, models/common.py *)

None == "None"

organmodels ==
    [lung |-> <<"LungCancerNonnested", "LungCancerStaging", "LungCancerMargins", "LungCancerLN", "LungCancerBiomarkers", "LungCancerOthernested">>,
     colorectal |-> <<"ColonCancerNonnested", "ColonCancerStaging", "ColonCancerMargins", "ColonCancerLN", "ColonCancerBiomarkers">>,
     prostate |-> <<"ProstateCancerNonnested", "ProstateCancerStaging", "ProstateCancerMargins", "ProstateCancerLN">>,
     esophagus |-> <<"EsophagusCancerNonnested", "EsophagusCancerStaging", "EsophagusCancerMargins", "EsophagusCancerLN">>,
     breast |-> <<"BreastCancerNonnested", "DCIS", "BreastCancerGrading", "BreastCancerStaging", "BreastCancerMargins", "BreastCancerLN", "BreastCancerBiomarkers">>,
     pancreas |-> <<"PancreasCancerNonnested", "PancreasCancerStaging", "PancreasCancerMargins", "PancreasCancerLN">>,
     thyroid |-> <<"ThyroidCancerNonnested", "ThyroidCancerStaging", "ThyroidCancerMargins", "ThyroidCancerLN">>,
     cervix |-> <<"CervixCancerNonnested", "CervixCancerStaging", "CervixCancerMargins", "CervixCancerLN">>,
     liver |-> <<"LiverCancerNonnested", "LiverCancerExtent", "LiverCancerVascularInvasion", "LiverCancerStaging", "LiverCancerMargins", "LiverCancerLN">>,
     stomach |-> <<"StomachCancerNonnested", "StomachCancerStaging", "StomachCancerMargins", "StomachCancerLN">>]

\* the values the classifier's cancer_category field admits
CancerCategories ==
    {"stomach", "colorectal", "breast", "esophagus", "lung", "prostate",
     "thyroid", "pancreas", "cervix", "liver", "others", None}

\* the values the classifier's cancer_category_others_description admits
OthersDescriptions == {None, "kidney"}

\* every result the backend can return for the is_cancer signature
ClassificationResults ==
    [cancer_excision_report : BOOLEAN,
     cancer_category : CancerCategories,
     cancer_category_others_description : OthersDescriptions]

\* organmodels.get(category, []), walked up to MaxExtractors identifiers
ExtractorList(category) ==
    LET all == IF category \in DOMAIN organmodels THEN organmodels[category] ELSE <<>>
    IN  SubSeq(all, 1, IF Len(all) < MaxExtractors THEN Len(all) ELSE MaxExtractors)

-----------------------------------------------------------------------------
(* pipeline.py *)

NL == "\n"
Whitespace == {" ", NL, "\t"}

\* str.split('\n\n'): cut at each leftmost non-overlapping separator
RECURSIVE split(_)
split(s) ==
    LET hits == {i \in 1..(Len(s) - 1) : s[i] = NL /\ s[i + 1] = NL}
    IN  IF hits = {} THEN <<s>>
        ELSE LET i == CHOOSE h \in hits : \A g \in hits : h <= g
             IN  <<SubSeq(s, 1, i - 1)>> \o split(SubSeq(s, i + 2, Len(s)))

\* str.strip()
strip(s) ==
    LET keep == {i \in 1..Len(s) : s[i] \notin Whitespace}
    IN  IF keep = {} THEN <<>>
        ELSE LET lo == CHOOSE i \in keep : \A j \in keep : i <= j
                 hi == CHOOSE i \in keep : \A j \in keep : j <= i
             IN  SubSeq(s, lo, hi)

RECURSIVE nonempty_stripped(_)
nonempty_stripped(ps) ==
    IF ps = <<>> THEN <<>>
    ELSE LET p == strip(Head(ps))
         IN  (IF p = <<>> THEN <<>> ELSE <<p>>) \o nonempty_stripped(Tail(ps))

\* variant: the chunks are trimmed but the empty ones stay
split_paragraphs_keep_empty(r) ==
    [i \in 1..Len(split(r)) |-> strip(split(r)[i])]

\* lines 71-72
split_paragraphs(r) == nonempty_stripped(split(r))

\* lines 75-80
EligibleDocument(resp) ==
    [cancer_excision_report |-> TRUE,
     cancer_category |-> resp.cancer_category,
     cancer_category_others_description |-> resp.cancer_category_others_description,
     cancer_data |-> EmptyDict]

\* variant: the not-eligible document carries the classifier's category
NotEligibleDocumentKeepsCategory(resp) ==
    [cancer_excision_report |-> FALSE,
     cancer_category |-> resp.cancer_category,
     cancer_data |-> EmptyDict]

\* lines 112-116
NotEligibleDocument(resp) ==
    [cancer_excision_report |-> FALSE,
     cancer_category |-> None,
     cancer_data |-> EmptyDict]

\* variant: a merge that keeps the value already present
update_keep_first(d, other) ==
    [k \in (DOMAIN d) \cup (DOMAIN other) |->
        IF k \in DOMAIN d THEN d[k] ELSE other[k]]

\* dict.update
update(d, other) ==
    [k \in (DOMAIN d) \cup (DOMAIN other) |->
        IF k \in DOMAIN other THEN other[k] ELSE d[k]]

\* the timeit wrapper around run_pipeline: (result, elapsed)
timeit(result) == [response |-> result, timing |-> "elapsed"]

Call(stage, schema, paras, rep, category, jsonized) ==
    [stage |-> stage, schema |-> schema, paragraphs |-> paras, report |-> rep,
     cancer_category |-> category, report_jsonized |-> jsonized,
     outcome |-> "pending"]

\* the call in flight returned or raised
Complete(cs, outcome) == [cs EXCEPT ![Len(cs)].outcome = outcome]

Reports ==
    {<<"A", NL, NL, "B", NL, NL, " ", " ", NL, NL, "C">>,
     <<" ", "A", NL, "B", " ">>}

\* what the backend can return for ReportJsonize (its output field)
StructuringOutputs == {Dict(k_grade :> Prim("G2"))}

\* what the backend can return for an organ-specific signature
ExtractorResponses ==
    {Prediction(k_grade :> Prim("2")),
     Prediction((k_grade :> Prim("3")) @@ (k_margin :> Prim("neg"))),
     Prediction((k_margin :> Prim("pos")) @@ (k_completions :> Prim("raw"))),
     Prediction(k_one :> Prim("2"))}

-----------------------------------------------------------------------------
(* CancerPipeline.forward, run through run_cancer_pipeline *)

Extractors == ExtractorList(context_response.cancer_category)

Attempt(id, outcome, response) ==
    [id |-> id, outcome |-> outcome, response |-> response]

\* lines 69-73: split the report and call the classifier
Start ==
    /\ pc = "START"
    /\ paragraphs' = split_paragraphs(report)
    /\ calls' = Append(calls, Call("classify", "is_cancer", paragraphs', <<>>, None, Unset))
    /\ pc' = "CLASSIFYING"
    /\ UNCHANGED <<report, context_response, json_report, idx, output_report,
                   log, attempts, returned, dumpvars>>

\* variant: the structuring call is made before eligibility is looked at
ClassifyReturnsStructuresFirst(resp) ==
    /\ pc = "CLASSIFYING"
    /\ context_response' = resp
    /\ calls' = Append(Complete(calls, "returned"),
                        Call("structure", "ReportJsonize", paragraphs,
                             <<>>, resp.cancer_category, Unset))
    /\ IF resp.cancer_excision_report
       THEN /\ output_report' = EligibleDocument(resp)
            /\ pc' = "STRUCTURING"
            /\ UNCHANGED returned
       ELSE /\ output_report' = NotEligibleDocument(resp)
            /\ returned' = timeit(output_report')
            /\ pc' = "NOT_ELIGIBLE"
    /\ UNCHANGED <<report, paragraphs, json_report, idx, log, attempts, dumpvars>>

\* lines 73-87 and 109-118: the classifier answered
ClassifyReturns(resp) ==
    /\ pc = "CLASSIFYING"
    /\ context_response' = resp
    /\ IF resp.cancer_excision_report
       THEN /\ output_report' = EligibleDocument(resp)
            /\ calls' = Append(Complete(calls, "returned"),
                                Call("structure", "ReportJsonize", paragraphs,
                                     <<>>, resp.cancer_category, Unset))
            /\ pc' = "STRUCTURING"
            /\ UNCHANGED returned
       ELSE /\ output_report' = NotEligibleDocument(resp)
            /\ returned' = timeit(output_report')
            /\ pc' = "NOT_ELIGIBLE"
            /\ calls' = Complete(calls, "returned")
    /\ UNCHANGED <<report, paragraphs, json_report, idx, log, attempts, dumpvars>>

\* variant: the classification failure is caught and reported as not eligible
ClassifyRaisesCaught ==
    /\ pc = "CLASSIFYING"
    /\ pc' = "NOT_ELIGIBLE"
    /\ calls' = Complete(calls, "raised")
    /\ output_report' = NotEligibleDocument(context_response)
    /\ returned' = timeit(output_report')
    /\ UNCHANGED <<report, paragraphs, context_response, json_report, idx,
                   log, attempts, dumpvars>>

\* line 73 raises: nothing catches it in forward, timeit (line 41) or the
\* callers (lines 128, 142), so the caller of run_cancer_pipeline gets the
\* exception
ClassifyRaises ==
    /\ pc = "CLASSIFYING"
    /\ pc' = "RAISED"
    /\ calls' = Complete(calls, "raised")
    /\ returned' = Raised
    /\ UNCHANGED <<report, paragraphs, context_response, json_report, idx,
                   output_report, log, attempts, dumpvars>>

\* lines 87-88: the structuring call answered
StructuringReturns(out) ==
    /\ pc = "STRUCTURING"
    /\ json_report' = out
    /\ calls' = Complete(calls, "returned")
    /\ idx' = 1
    /\ pc' = "FAN_OUT"
    /\ UNCHANGED <<report, paragraphs, context_response, output_report, log,
                   attempts, returned, dumpvars>>

\* variant: the structuring failure leaves forward
StructuringRaisesPropagates ==
    /\ pc = "STRUCTURING"
    /\ calls' = Complete(calls, "raised")
    /\ returned' = Raised
    /\ pc' = "RAISED"
    /\ UNCHANGED <<report, paragraphs, context_response, json_report, idx,
                   output_report, log, attempts, dumpvars>>

\* lines 90-91: the structuring call raised
StructuringRaises ==
    /\ pc = "STRUCTURING"
    /\ json_report' = Dict(EmptyDict)
    /\ calls' = Complete(calls, "raised")
    /\ idx' = 1
    /\ pc' = "FAN_OUT"
    /\ UNCHANGED <<report, paragraphs, context_response, output_report, log,
                   attempts, returned, dumpvars>>

\* variant: an unknown identifier ends the run
ResolveExtractorAborts(found) ==
    /\ pc = "FAN_OUT"
    /\ idx <= Len(Extractors)
    /\ IF found
       THEN /\ calls' = Append(calls, Call("extract", Extractors[idx], <<>>, report,
                                           None, json_report))
            /\ pc' = "EXTRACTING"
            /\ UNCHANGED <<idx, log, attempts, returned>>
       ELSE /\ log' = Append(log, [msg |-> "not found", id |-> Extractors[idx]])
            /\ attempts' = Append(attempts, Attempt(Extractors[idx], "unresolved", Unset))
            /\ returned' = Raised
            /\ pc' = "RAISED"
            /\ UNCHANGED <<calls, idx>>
    /\ UNCHANGED <<report, paragraphs, context_response, json_report,
                   output_report, dumpvars>>

\* lines 93-101: the next identifier is looked up in globals() and, when
\* found, its predictor is called with the raw report and json_report.
\* Lines 98-99 (the info log and dspy.Predict(cls)) are outside the try;
\* building a predictor for a resolved class only stores the signature, so
\* the step has no failing outcome of its own.
ResolveExtractor(found) ==
    /\ pc = "FAN_OUT"
    /\ idx <= Len(Extractors)
    /\ IF found
       THEN /\ calls' = Append(calls, Call("extract", Extractors[idx], <<>>, report,
                                           None, json_report))
            /\ pc' = "EXTRACTING"
            /\ UNCHANGED <<idx, log, attempts>>
       ELSE /\ log' = Append(log, [msg |-> "not found", id |-> Extractors[idx]])
            /\ attempts' = Append(attempts, Attempt(Extractors[idx], "unresolved", Unset))
            /\ idx' = idx + 1
            /\ UNCHANGED <<calls, pc>>
    /\ UNCHANGED <<report, paragraphs, context_response, json_report,
                   output_report, returned, dumpvars>>

\* variant: the stored fields are merged before the result is normalized
ExtractorReturnsMergesFirst(resp) ==
    /\ pc = "EXTRACTING"
    /\ LET organ_data == dump_prediction_plain(resp)
       IN  IF organ_data.t = "raise"
           THEN /\ output_report' =
                       [output_report EXCEPT !.cancer_data = update(@, resp.store)]
                /\ log' = Append(log, [msg |-> "error processing", id |-> Extractors[idx]])
                /\ attempts' = Append(attempts, Attempt(Extractors[idx], "malformed", resp))
           ELSE /\ output_report' =
                       [output_report EXCEPT !.cancer_data = update(@, organ_data.m)]
                /\ attempts' = Append(attempts, Attempt(Extractors[idx], "merged", resp))
                /\ UNCHANGED log
    /\ calls' = Complete(calls, "returned")
    /\ idx' = idx + 1
    /\ pc' = "FAN_OUT"
    /\ UNCHANGED <<report, paragraphs, context_response, json_report,
                   returned, dumpvars>>

\* lines 101-106: the extractor answered; its result is normalized and merged
ExtractorReturns(resp) ==
    /\ pc = "EXTRACTING"
    /\ LET organ_data == dump_prediction_plain(resp)
       IN  IF organ_data.t = "raise"
           THEN /\ log' = Append(log, [msg |-> "error processing", id |-> Extractors[idx]])
                /\ attempts' = Append(attempts, Attempt(Extractors[idx], "malformed", resp))
                /\ UNCHANGED output_report
           ELSE /\ output_report' =
                       [output_report EXCEPT !.cancer_data = update(@, organ_data.m)]
                /\ attempts' = Append(attempts, Attempt(Extractors[idx], "merged", resp))
                /\ UNCHANGED log
    /\ calls' = Complete(calls, "returned")
    /\ idx' = idx + 1
    /\ pc' = "FAN_OUT"
    /\ UNCHANGED <<report, paragraphs, context_response, json_report,
                   returned, dumpvars>>

\* variant: the extractor's failure leaves forward
ExtractorRaisesPropagates ==
    /\ pc = "EXTRACTING"
    /\ calls' = Complete(calls, "raised")
    /\ attempts' = Append(attempts, Attempt(Extractors[idx], "raised", Unset))
    /\ returned' = Raised
    /\ pc' = "RAISED"
    /\ UNCHANGED <<report, paragraphs, context_response, json_report, idx,
                   output_report, log, dumpvars>>

\* lines 101, 104-106: the extractor call raised
ExtractorRaises ==
    /\ pc = "EXTRACTING"
    /\ log' = Append(log, [msg |-> "error processing", id |-> Extractors[idx]])
    /\ attempts' = Append(attempts, Attempt(Extractors[idx], "raised", Unset))
    /\ calls' = Complete(calls, "raised")
    /\ idx' = idx + 1
    /\ pc' = "FAN_OUT"
    /\ UNCHANGED <<report, paragraphs, context_response, json_report,
                   output_report, returned, dumpvars>>

\* variant: the loop is left after its first identifier
ReturnEarly ==
    /\ pc = "FAN_OUT"
    /\ idx > 1 \/ idx > Len(Extractors)
    /\ returned' = timeit(output_report)
    /\ pc' = "DONE"
    /\ UNCHANGED <<report, paragraphs, context_response, json_report, idx,
                   output_report, log, calls, attempts, dumpvars>>

\* line 108, through timeit: the loop is over
Return ==
    /\ pc = "FAN_OUT"
    /\ idx > Len(Extractors)
    /\ returned' = timeit(output_report)
    /\ pc' = "DONE"
    /\ UNCHANGED <<report, paragraphs, context_response, json_report, idx,
                   output_report, log, calls, attempts, dumpvars>>

PipelineStart(r) ==
    /\ pc = "START"
    /\ report = r
    /\ paragraphs = <<>>
    /\ context_response = Unset
    /\ json_report = Unset
    /\ idx = 0
    /\ output_report = Unset
    /\ log = <<>>
    /\ calls = <<>>
    /\ attempts = <<>>
    /\ returned = Unset

Init ==
    /\ \E r \in Reports : PipelineStart(r)
    /\ obj = NoneValue
    /\ nodes = 1
    /\ dumped = Unset
    /\ redumped = Unset
    /\ options = Unset
    /\ extended = Unset

Next ==
    \/ Start
    \/ \E resp \in ClassificationResults : ClassifyReturns(resp)
    \/ ClassifyRaises
    \/ \E out \in StructuringOutputs : StructuringReturns(out)
    \/ StructuringRaises
    \/ \E found \in BOOLEAN : ResolveExtractor(found)
    \/ \E resp \in ExtractorResponses : ExtractorReturns(resp)
    \/ ExtractorRaises
    \/ Return

Spec == Init /\ [][Next]_vars

\* forward runs on one thread without waiting on anything but the backend;
\* every backend call eventually returns or raises
Fairness ==
    /\ WF_vars(Start)
    /\ WF_vars((\E resp \in ClassificationResults : ClassifyReturns(resp)) \/ ClassifyRaises)
    /\ WF_vars((\E out \in StructuringOutputs : StructuringReturns(out)) \/ StructuringRaises)
    /\ WF_vars(\E found \in BOOLEAN : ResolveExtractor(found))
    /\ WF_vars((\E resp \in ExtractorResponses : ExtractorReturns(resp)) \/ ExtractorRaises)
    /\ WF_vars(Return)

FairSpec == Spec /\ Fairness

DumpInit ==
    /\ PipelineStart(<<"A">>)
    /\ obj \in Leaves
    /\ nodes = 1
    /\ dumped = Unset
    /\ redumped = Unset
    /\ options = Unset
    /\ extended = Unset

DumpSpec == DumpInit /\ [][DumpNext]_vars

ReportAlphabet == {"A", "B", " ", NL}

\* every text of up to MaxReportLen characters, and the one of the spec
ReportTexts ==
    UNION {[1..n -> ReportAlphabet] : n \in 0..MaxReportLen}
        \cup {<<"A", NL, NL, "B", NL, NL, " ", " ", NL, NL, "C">>}

SplitInit ==
    /\ \E r \in ReportTexts : PipelineStart(r)
    /\ obj = NoneValue
    /\ nodes = 1
    /\ dumped = Unset
    /\ redumped = Unset
    /\ options = Unset
    /\ extended = Unset

SplitNext ==
    \/ Start
    \/ \E resp \in ClassificationResults : ClassifyReturns(resp)

SplitSpec == SplitInit /\ [][SplitNext]_vars

ExtendedSpec == DumpInit /\ [][ExtendedNext]_vars

-----------------------------------------------------------------------------
(* Properties of the orchestrator *)

InFanOut == pc \in {"FAN_OUT", "EXTRACTING", "DONE"}

\* the merge of the successful attempts alone, in list order
RECURSIVE MergeSuccessful(_)
MergeSuccessful(as) ==
    IF as = <<>> THEN EmptyDict
    ELSE LET init == MergeSuccessful(SubSeq(as, 1, Len(as) - 1))
             last == as[Len(as)]
         IN  IF last.outcome = "merged"
             THEN update(init, to_plain(last.response).m)
             ELSE init

FailedAttempts == SelectSeq(attempts, LAMBDA a : a.outcome # "merged")

StructuringFailed == Len(calls) >= 2 /\ calls[2].outcome = "raised"

\* C1: a failure of one extractor (unresolvable, backend error, malformed
\* result that cannot be normalized) is logged and skipped: no exception
\* leaves forward after the classification, every identifier of the list is
\* attempted in order, cancer_data is the merge of the successful extractors
\* alone, and the run returns the output document.
C1_FailureIsolated ==
    /\ returned = Raised => (attempts = <<>> /\ Len(calls) = 1)
    /\ InFanOut =>
        /\ Len(attempts) = idx - 1
        /\ \A i \in 1..Len(attempts) : attempts[i].id = Extractors[i]
        /\ output_report.cancer_data = MergeSuccessful(attempts)
        /\ [i \in 1..Len(log) |-> log[i].id]
             = [i \in 1..Len(FailedAttempts) |-> FailedAttempts[i].id]
    /\ pc = "DONE" =>
        /\ Len(attempts) = Len(Extractors)
        /\ returned = timeit(output_report)

C1_Witness ==
    /\ pc = "DONE"
    /\ Len(attempts) = 2
    /\ attempts[1].outcome \in {"raised", "malformed"}
    /\ attempts[2].outcome = "merged"
    /\ k_grade \in DOMAIN output_report.cancer_data

\* C2: when the classifier says not eligible, the run returns the document
\* cancer_excision_report = false, cancer_category = null, cancer_data = {},
\* whatever category and description the classifier returned.
C2_NotEligibleDocument ==
    (context_response # Unset /\ ~context_response.cancer_excision_report) =>
        /\ pc = "NOT_ELIGIBLE"
        /\ returned = timeit([cancer_excision_report |-> FALSE,
                              cancer_category |-> None,
                              cancer_data |-> EmptyDict])

C2_Witness ==
    /\ pc = "NOT_ELIGIBLE"
    /\ context_response.cancer_category = "lung"
    /\ context_response.cancer_category_others_description = "kidney"

\* C3: when the classification call raises, the exception reaches the caller
\* of run_cancer_pipeline: no document and no elapsed time are returned and
\* the classification call is the only backend call of the run.
C3_ClassificationFailurePropagates ==
    (Len(calls) >= 1 /\ calls[1].outcome = "raised") =>
        /\ pc = "RAISED"
        /\ returned = Raised
        /\ output_report = Unset
        /\ Len(calls) = 1
        /\ calls[1].stage = "classify"

C3_Witness ==
    /\ pc = "RAISED"
    /\ calls[1].outcome = "raised"

\* C4 as stated: after a structuring failure every identifier of the registry
\* list is invoked with report_jsonized = {} and the run returns a document.
C4_EveryListedExtractorInvoked ==
    (StructuringFailed /\ pc = "DONE") =>
        /\ json_report = Dict(EmptyDict)
        /\ \A i \in 1..Len(Extractors) :
              \E j \in 1..Len(calls) :
                 /\ calls[j].stage = "extract"
                 /\ calls[j].schema = Extractors[i]
                 /\ calls[j].report_jsonized = Dict(EmptyDict)
        /\ returned = timeit(output_report)

\* C4 (amended): after a structuring failure json_report is {} and the run
\* goes on to the fan-out: every identifier of the list that resolves is
\* invoked with report_jsonized = {}, no extractor call gets anything else,
\* and the run returns the output document.
C4_StructuringFailureDegrades ==
    StructuringFailed =>
        /\ json_report = Dict(EmptyDict)
        /\ InFanOut
        /\ \A j \in 1..Len(calls) :
              calls[j].stage = "extract" => calls[j].report_jsonized = Dict(EmptyDict)
        /\ \A i \in 1..Len(attempts) :
              attempts[i].outcome # "unresolved" =>
                 \E j \in 1..Len(calls) :
                    /\ calls[j].stage = "extract"
                    /\ calls[j].schema = Extractors[i]
        /\ pc = "DONE" =>
              /\ Len(attempts) = Len(Extractors)
              /\ returned = timeit(output_report)

C4_Witness ==
    /\ StructuringFailed
    /\ pc = "DONE"
    /\ Len(attempts) = 2
    /\ attempts[1].outcome = "unresolved"
    /\ attempts[2].outcome = "merged"

\* the attempts that succeeded and whose normalized result has key k
Producers(k) ==
    {i \in 1..Len(attempts) :
        /\ attempts[i].outcome = "merged"
        /\ k \in DOMAIN to_plain(attempts[i].response).m}

Last(S) == CHOOSE i \in S : \A j \in S : j <= i

KnownKeys ==
    {k_lm_usage, k_inputs, k_completions, k_note, k_grade, k_margin, k_value, k_one}

\* C5: every key of cancer_data holds the value of the last successful
\* extractor, in list order, whose normalized result has that key, and a key
\* that no successful extractor produced is absent.
C5_LastWriteWins ==
    InFanOut =>
        \A k \in KnownKeys \cup DOMAIN output_report.cancer_data :
            IF Producers(k) = {}
            THEN k \notin DOMAIN output_report.cancer_data
            ELSE /\ k \in DOMAIN output_report.cancer_data
                 /\ output_report.cancer_data[k]
                      = to_plain(attempts[Last(Producers(k))].response).m[k]

C5_Witness ==
    /\ pc = "DONE"
    /\ Producers(k_grade) = {1, 2}
    /\ to_plain(attempts[1].response).m[k_grade] # to_plain(attempts[2].response).m[k_grade]
    /\ output_report.cancer_data[k_grade] = Prim("2")

\* the step that records an unresolvable identifier
UnresolvedStep ==
    /\ Len(attempts') = Len(attempts) + 1
    /\ attempts'[Len(attempts')].outcome = "unresolved"

\* C6: the step on an identifier that does not resolve logs it, makes no
\* backend call, leaves the output document as it was and moves on to the
\* next identifier of the list.
C6_UnresolvedSkipped ==
    [][UnresolvedStep =>
          /\ log' = Append(log, [msg |-> "not found", id |-> Extractors[idx]])
          /\ calls' = calls
          /\ output_report' = output_report
          /\ returned' = returned
          /\ idx' = idx + 1
          /\ pc' = "FAN_OUT"]_vars

C6_Witness ==
    /\ Len(attempts) = 2
    /\ attempts[1].outcome = "unresolved"
    /\ attempts[2].outcome = "merged"
    /\ Len(calls) = 3

\* C7: in the document of an eligible report the others-description is
\* non-null exactly when the category is the designated "others" value.
C7_OthersDescriptionIffOthers ==
    (output_report # Unset /\ output_report.cancer_excision_report) =>
        ((output_report.cancer_category_others_description # None)
            <=> (output_report.cancer_category = "others"))

-----------------------------------------------------------------------------
(* Properties of the normalizer *)

DumpReturned == dumped # Unset /\ dumped # Raised

IsMapping(v) == v.t = "map"

IsPrivateKey(k) == k.kt = "str" /\ Len(k.k) > 0 /\ k.k[1] = "_"

\* no mapping of the value, at any depth, has a "_"-prefixed str key
RECURSIVE NoPrivateKey(_)
NoPrivateKey(v) ==
    IF v.t = "map"
    THEN \A k \in DOMAIN v.m : ~IsPrivateKey(k) /\ NoPrivateKey(v.m[k])
    ELSE IF v.t = "seq"
    THEN \A i \in 1..Len(v.s) : NoPrivateKey(v.s[i])
    ELSE TRUE

C9_MappingKeyExclusion ==
    DumpReturned =>
        /\ obj.t = "map" =>
              /\ DOMAIN dumped.m = {k \in DOMAIN obj.m : ~IsPrivateKey(k)}
              /\ \A k \in DOMAIN dumped.m : dumped.m[k] = to_plain(obj.m[k])
        /\ NoPrivateKey(dumped)

\* C10: the mapping made from a Prediction has none of the bookkeeping keys
\* and no stored key that starts with "_".
C10_PredictionKeyExclusion ==
    (DumpReturned /\ obj.t = "pred") =>
        \A k \in DOMAIN dumped.m :
            /\ k \notin {k_lm_usage, k_inputs, k_completions}
            /\ ~IsPrivateKey(k)

\* the value is built only from primitives, mappings and sequences
RECURSIVE OnlyPlain(_)
OnlyPlain(v) ==
    IF v.t = "prim" THEN TRUE
    ELSE IF v.t = "map" THEN \A k \in DOMAIN v.m : OnlyPlain(v.m[k])
    ELSE IF v.t = "seq" THEN \A i \in 1..Len(v.s) : OnlyPlain(v.s[i])
    ELSE FALSE

\* C11: for a value built only from primitives, mappings and sequences,
\* normalizing the normalizer's output returns an equal value, also when the
\* first call wrapped a top level that was no mapping under "value".
C11_Idempotent ==
    (redumped # Unset /\ OnlyPlain(obj)) => redumped = dumped

C11_Witness ==
    /\ redumped # Unset
    /\ obj.t = "seq"
    /\ obj.cls = "tuple"
    /\ obj.s[1].t = "map"
    /\ k_note \in DOMAIN obj.s[1].m
    /\ DOMAIN redumped.m = {k_value}

\* the value is made of null, booleans, numbers, strings, sequences and
\* string-keyed mappings, but for values of no known kind passed through
RECURSIVE JsonSafe(_)
JsonSafe(v) ==
    IF v.t = "prim" THEN TRUE
    ELSE IF v.t = "map"
    THEN \A k \in DOMAIN v.m : k.kt = "str" /\ JsonSafe(v.m[k])
    ELSE IF v.t = "seq"
    THEN \A i \in 1..Len(v.s) : JsonSafe(v.s[i])
    ELSE IF v.t = "opaque" THEN v.kind = "other"
    ELSE v.t \in {"obj", "dataclass"}

\* C12: the output of dump_prediction_plain is JSON-safe: a date/time of the
\* input is there as its ISO-8601 text, a Decimal as a number, every mapping
\* is string-keyed, and only a value of no known kind is left as it was.
C12_JsonSafe ==
    DumpReturned => JsonSafe(dumped)

\* what the claim asks of out, the result of dump_prediction for v: in each
\* mapping, at any depth, an entry whose key is in exclude_keys or which the
\* predicate rejects is absent, and an entry that nothing excludes is there
\* with its value normalized
RECURSIVE EntriesFiltered(_, _, _)
EntriesFiltered(v, out, opts) ==
    IF v.t = "map"
    THEN /\ out.t = "map"
         /\ \A k \in DOMAIN v.m :
               LET vetoed == \/ k \in opts.exclude_keys
                             \/ ~Accepts(opts.custom_predicate, k, v.m[k])
                   private == opts.exclude_private /\ IsPrivateKey(k)
               IN  /\ vetoed => k \notin DOMAIN out.m
                   /\ (~vetoed /\ ~private) =>
                         /\ k \in DOMAIN out.m
                         /\ out.m[k] = dump_prediction(v.m[k], opts)
                         /\ EntriesFiltered(v.m[k], out.m[k], opts)
    ELSE IF v.t = "seq"
    THEN /\ out.t = "seq"
         /\ Len(out.s) = Len(v.s)
         /\ \A i \in 1..Len(v.s) : EntriesFiltered(v.s[i], out.s[i], opts)
    ELSE TRUE

\* C13: dump_prediction leaves out every mapping entry whose key is in
\* exclude_keys or which custom_predicate rejects, whatever the key, and
\* keeps every other entry that is not private, with its value normalized.
C13_ExtendedExclusion ==
    extended # Unset => EntriesFiltered(obj, extended, options)

-----------------------------------------------------------------------------
(* Properties of the paragraph splitting *)

NonWhitespace(s) == {i \in 1..Len(s) : s[i] \notin Whitespace}

\* a blank-line boundary lies between positions i and j
BlankLineBetween(s, i, j) ==
    \E k \in i..(j - 1) : s[k] = NL /\ s[k + 1] = NL

\* the chunk that starts at position i, trimmed
ChunkFrom(s, i) ==
    LET same == {j \in NonWhitespace(s) : j >= i /\ ~BlankLineBetween(s, i, j)}
    IN  SubSeq(s, i, CHOOSE j \in same : \A g \in same : g <= j)

\* the positions where a non-empty trimmed chunk starts
ChunkStarts(s) ==
    {i \in NonWhitespace(s) :
        \A j \in NonWhitespace(s) : j < i => BlankLineBetween(s, j, i)}

RECURSIVE ChunksFrom(_, _)
ChunksFrom(s, starts) ==
    IF starts = {} THEN <<>>
    ELSE LET i == CHOOSE a \in starts : \A b \in starts : a <= b
         IN  <<ChunkFrom(s, i)>> \o ChunksFrom(s, starts \ {i})

\* the blank-line-separated chunks of s in order, trimmed, empty ones dropped
BlankLineChunks(s) == ChunksFrom(s, ChunkStarts(s))

\* C14: the paragraph sequence given to the classifier and to the
\* structuring call is the sequence of the report's blank-line-separated
\* chunks in order, each trimmed, without the empty or whitespace-only ones;
\* no paragraph is empty or starts or ends with whitespace.
C14_ParagraphSplitting ==
    \A c \in 1..Len(calls) :
        calls[c].stage \in {"classify", "structure"} =>
            /\ calls[c].paragraphs = BlankLineChunks(report)
            /\ \A p \in 1..Len(calls[c].paragraphs) :
                  LET para == calls[c].paragraphs[p]
                  IN  /\ para # <<>>
                      /\ para[1] \notin Whitespace
                      /\ para[Len(para)] \notin Whitespace

C14_Witness ==
    /\ report = <<"A", NL, NL, "B", NL, NL, " ", " ", NL, NL, "C">>
    /\ Len(calls) = 2
    /\ calls[2].stage = "structure"
    /\ calls[2].paragraphs = << <<"A">>, <<"B">>, <<"C">> >>

-----------------------------------------------------------------------------
(* Order of the backend calls *)

\* the place of an identifier in the registry list of the chosen category
Position(id) == CHOOSE n \in 1..Len(Extractors) : Extractors[n] = id

\* C15: the backend calls of a run are made one at a time: first the one
\* classification call; then, only for an eligible report, the one
\* structuring call; then, once that call has returned or raised, the
\* extractor calls in the order of the registry list, each at most once.  A
\* run that is not eligible makes no call after the classification.
C15_CallOrder ==
    /\ pc # "START" => (Len(calls) >= 1 /\ calls[1].stage = "classify")
    /\ \A i \in 2..Len(calls) : calls[i].stage # "classify"
    /\ \A i \in 1..(Len(calls) - 1) : calls[i].outcome # "pending"
    /\ Len(calls) >= 2 =>
          /\ calls[2].stage = "structure"
          /\ calls[1].outcome = "returned"
          /\ context_response.cancer_excision_report
    /\ \A i \in 3..Len(calls) :
          /\ calls[i].stage = "extract"
          /\ calls[2].outcome \in {"returned", "raised"}
          /\ \E n \in 1..Len(Extractors) : Extractors[n] = calls[i].schema
    /\ \A i, j \in 3..Len(calls) :
          i < j => Position(calls[i].schema) < Position(calls[j].schema)
    /\ (InFanOut \/ pc = "STRUCTURING") => Len(calls) >= 2
    /\ (context_response # Unset /\ ~context_response.cancer_excision_report) =>
          Len(calls) = 1

C15_Witness ==
    /\ pc = "DONE"
    /\ Len(calls) = 4
    /\ calls[2].outcome = "raised"
    /\ calls[3].schema = "BreastCancerNonnested"
    /\ calls[4].schema = "DCIS"

-----------------------------------------------------------------------------
(* Termination *)

Terminal == {"NOT_ELIGIBLE", "DONE"}

\* C16: when every backend call returns or raises, a run whose
\* classification call succeeded reaches NOT_ELIGIBLE or DONE and stays in
\* the one it reached; DONE is reached only after every identifier of the
\* registry list was attempted, invoked or skipped as unresolvable; and for
\* a category without registry entry DONE comes with no attempt and
\* cancer_data = {}.
C16_Terminates ==
    /\ (context_response # Unset) ~> (pc \in Terminal)
    /\ [][(pc \in Terminal) => (pc' = pc)]_vars
    /\ [](pc = "DONE" =>
            /\ Len(attempts) = Len(Extractors)
            /\ \A i \in 1..Len(attempts) :
                  /\ attempts[i].id = Extractors[i]
                  /\ (attempts[i].outcome # "unresolved") <=>
                        (\E j \in 1..Len(calls) : calls[j].schema = Extractors[i])
            /\ context_response.cancer_category \notin DOMAIN organmodels =>
                  /\ attempts = <<>>
                  /\ Len(calls) = 2
                  /\ output_report.cancer_data = EmptyDict)

C16_Witness ==
    /\ pc = "DONE"
    /\ context_response.cancer_category = "others"
    /\ attempts = <<>>
    /\ returned.response.cancer_data = EmptyDict

-----------------------------------------------------------------------------
(* What the fan-out leaves alone *)

\* the step that records an extractor that failed or did not resolve
FailedStep ==
    /\ Len(attempts') = Len(attempts) + 1
    /\ attempts'[Len(attempts')].outcome # "merged"

\* the keys of the normalized results of the successful attempts
SuccessfulKeys ==
    UNION {DOMAIN to_plain(attempts[i].response).m :
              i \in {j \in 1..Len(attempts) : attempts[j].outcome = "merged"}}

\* C17: a failing or unresolvable extractor leaves cancer_data as it was;
\* cancer_data changes only in the step where an extractor's call returned
\* and its result was normalized, and then by all keys of that result; no
\* key is in cancer_data that no successful extractor produced; and the
\* other fields of the document do not change during the fan-out.
C17_FanOutFrame ==
    /\ [][FailedStep => output_report' = output_report]_vars
    /\ [][(pc \in {"FAN_OUT", "EXTRACTING"}) =>
            /\ output_report'.cancer_excision_report = output_report.cancer_excision_report
            /\ output_report'.cancer_category = output_report.cancer_category
            /\ output_report'.cancer_category_others_description
                 = output_report.cancer_category_others_description
            /\ output_report'.cancer_data # output_report.cancer_data =>
                  /\ pc = "EXTRACTING"
                  /\ calls'[Len(calls')].outcome = "returned"
                  /\ attempts'[Len(attempts')].outcome = "merged"
                  /\ output_report'.cancer_data
                       = update(output_report.cancer_data,
                                dump_prediction_plain(attempts'[Len(attempts')].response).m)]_vars
    /\ [](InFanOut => DOMAIN output_report.cancer_data \subseteq SuccessfulKeys)

C17_Witness ==
    /\ pc = "DONE"
    /\ Len(attempts) = 2
    /\ attempts[1].outcome = "merged"
    /\ attempts[2].outcome = "malformed"
    /\ output_report.cancer_data = to_plain(attempts[1].response).m

====
